---------------------------- MODULE Spec2Model ----------------------------
(***************************************************************************)
(* Typed configuration containers of rust-env-config: key-set             *)
(* declarations, the environment loader (load_env), the secrets loader    *)
(* (load_secrets), direct construction (From), lookup (get) and           *)
(* projection (clone_into), for both container families (EnvVariables     *)
(* and SecretValues).                                                      *)
(*                                                                         *)
(* A key-set (an enum made by define_env_config! / define_secrets_config!)*)
(* is the sequence of its external names in declaration order; a key      *)
(* (an enum variant) is its position in that sequence.  A HashMap<&str,   *)
(* String> is a function from a finite set of names to values.            *)
(***************************************************************************)
EXTENDS Naturals, Sequences, FiniteSets, TLC

VARIABLES
    cur,    \* the container the task holds, or None
    res,    \* record of the latest operation: its inputs and what it returned
    pc,     \* where the (single) task is: "idle", or inside load_secrets
    views   \* for each component, what its clone_into of `cur` returned

vars == <<cur, res, pc, views>>

---------------------------------------------------------------------------
(* Bounds of the model. *)

\* Largest number of variants of a declared key-set.
MaxKeys == 3

\* Largest number of members of a JSON object in a fetched payload.
MaxEntries == 2

\* Largest number of variants of a key-set (the parent's and the children's)
\* where several components share one parent.
MaxSharedKeys == 2

\* External names (environment variable names, secret field names).
Names == {"X", "Y"}

\* String values.
Values == {"1", "2"}

\* Sequences over S of length at most n.
SeqUpTo(S, n) == UNION {[1..k -> S] : k \in 0..n}

\* HashMap<&'static str, String>: every finite map from names in D to values.
MapsOver(D) == UNION {[E -> Values] : E \in SUBSET D}

\* The empty HashMap (HashMap::new()).
EmptyMap == <<>>

---------------------------------------------------------------------------
(* Key-set declarations. *)

\* Every key-set the macros can declare within the bounds: variants in
\* declaration order, each bound to an external name.  The macro does not
\* require the names of two variants to differ.
KeySets == SeqUpTo(Names, MaxKeys)

\* fn as_str(&self) -> &'static str : the external name of variant k of T.
as_str(T, k) == T[k]

\* fn value_list() -> Vec<Self> : every variant of T, in declaration order.
value_list(T) == [i \in 1..Len(T) |-> i]

\* The set of external names a key-set declares.
NamesOf(T) == {as_str(T, value_list(T)[i]) : i \in 1..Len(T)}

\* define_env_variable!(SECRETS_REGION), define_env_variable!(SECRETS_ID).
SECRETS_REGION == "SECRETS_REGION"
SECRETS_ID == "SECRETS_ID"

\* define_env_config!(SecretsEnvConfig, SecretsRegion => SECRETS_REGION,
\*                    SecretsId => SECRETS_ID)
SecretsEnvConfig == <<SECRETS_REGION, SECRETS_ID>>
SecretsRegion == 1
SecretsId == 2

---------------------------------------------------------------------------
(* Results: Result<_, GenericServerError>.  An error carries its kind (the *)
(* error type) and the name it was raised for.                             *)

OkValue(v) == [ok |-> TRUE, value |-> v, kind |-> "", name |-> ""]
OkMap(m, looked) ==
    [ok |-> TRUE, map |-> m, kind |-> "", name |-> "", looked |-> looked]
ErrValue(kind, name) == [ok |-> FALSE, value |-> "", kind |-> kind, name |-> name]
ErrMap(kind, name, looked) ==
    [ok |-> FALSE, map |-> EmptyMap, kind |-> kind, name |-> name, looked |-> looked]

\* HashMap::insert: adds the entry, replacing one already stored under k.
insert(m, k, v) == [n \in (DOMAIN m) \cup {k} |-> IF n = k THEN v ELSE m[n]]


---------------------------------------------------------------------------
(* The process environment, as load_env reads it. *)

\* What the environment holds when load_env runs: a value for some names.
\* A name outside the domain is one std::env::var returns Err for.
Environments == MapsOver(Names)

\* env::var(name) : Ok(value) when the variable is set, Err otherwise.
env_var(e, name) ==
    IF name \in DOMAIN e THEN OkValue(e[name]) ELSE ErrValue("VarError", name)

---------------------------------------------------------------------------
(* EnvVariables<T> : lib.rs *)

\* A get_raw that answers a miss with the default String
\* (unwrap_or_default) instead of the error.
EnvVariables_get_raw_or_default(m, key) ==
    IF key \in DOMAIN m THEN OkValue(m[key]) ELSE OkValue("")

\* EnvVariables::get_raw
EnvVariables_get_raw(m, key) ==
    IF key \in DOMAIN m THEN OkValue(m[key]) ELSE ErrValue("CriticalError", key)

\* EnvVariables::get
EnvVariables_get(m, T, k) == EnvVariables_get_raw(m, as_str(T, k))

\* The body of load_env's for loop, from the i-th element of value_list on:
\* `?` returns the error at the first lookup that fails.
RECURSIVE load_env_loop(_, _, _, _, _)
load_env_loop(T, e, i, map, looked) ==
    IF i > Len(value_list(T)) THEN OkMap(map, looked)
    ELSE LET field == value_list(T)[i]
             value == env_var(e, as_str(T, field))
         IN  IF ~value.ok
             THEN ErrMap("MissingEnvVariableError", as_str(T, field),
                         Append(looked, as_str(T, field)))
             ELSE load_env_loop(T, e, i + 1,
                                insert(map, as_str(T, field), value.value),
                                Append(looked, as_str(T, field)))

\* A load_env that leaves a variable out of the map when its lookup fails,
\* instead of returning the error.
RECURSIVE load_env_skip_loop(_, _, _, _)
load_env_skip_loop(T, e, i, map) ==
    IF i > Len(T) THEN OkMap(map, T)
    ELSE load_env_skip_loop(T, e, i + 1,
                            IF T[i] \in DOMAIN e THEN insert(map, T[i], e[T[i]]) ELSE map)

load_env_skip_missing(T, e) == load_env_skip_loop(T, e, 1, EmptyMap)

\* A load_env that looks every key up before it reports, and reports the
\* last one it found missing.
load_env_check_all(T, e) ==
    LET missing == {i \in 1..Len(T) : T[i] \notin DOMAIN e}
        last == CHOOSE i \in missing : \A j \in missing : j <= i
    IN  IF missing = {} THEN load_env_loop(T, e, 1, EmptyMap, <<>>)
        ELSE ErrMap("MissingEnvVariableError", T[last], T)

\* A load_env that, once every key is found, keeps the whole environment
\* (env::vars().collect()) instead of the declared names only.
load_env_all_vars(T, e) ==
    LET r == load_env_loop(T, e, 1, EmptyMap, <<>>)
    IN  IF r.ok THEN [r EXCEPT !.map = e] ELSE r

\* load_env::<T>() run against environment e.
load_env(T, e) == load_env_loop(T, e, 1, EmptyMap, <<>>)

\* impl From<U> for EnvVariables<T> : the map is taken as it is.
EnvVariables_from(m) == m

\* The body of EnvVariables::clone_into's for loop.
RECURSIVE EnvVariables_clone_into_loop(_, _, _, _, _)
EnvVariables_clone_into_loop(self, Child, i, map, looked) ==
    IF i > Len(value_list(Child)) THEN OkMap(map, looked)
    ELSE LET value == value_list(Child)[i]
             key_as_str == as_str(Child, value)
             env_value == EnvVariables_get_raw(self, key_as_str)
         IN  IF ~env_value.ok
             THEN ErrMap("InvalidEnvConfig", key_as_str, Append(looked, key_as_str))
             ELSE EnvVariables_clone_into_loop(self, Child, i + 1,
                                               insert(map, key_as_str, env_value.value),
                                               Append(looked, key_as_str))

\* A clone_into without the map_err: get_raw's own error is returned.
EnvVariables_clone_into_unmapped(self, Child) ==
    LET r == EnvVariables_clone_into_loop(self, Child, 1, EmptyMap, <<>>)
    IN  IF r.ok THEN r ELSE [r EXCEPT !.kind = EnvVariables_get_raw(self, r.name).kind]

\* A clone_into that, once every key is found, clones the parent's whole
\* map (self.0.clone()) instead of the entries it looked up.
EnvVariables_clone_into_whole(self, Child) ==
    LET r == EnvVariables_clone_into_loop(self, Child, 1, EmptyMap, <<>>)
    IN  IF r.ok THEN [r EXCEPT !.map = self] ELSE r

\* EnvVariables::<Parent>::clone_into::<Child>() on a container with map self.
EnvVariables_clone_into(self, Child) ==
    EnvVariables_clone_into_loop(self, Child, 1, EmptyMap, <<>>)

---------------------------------------------------------------------------
(* SecretValues<T> : from_secrets/config.rs *)

\* SecretValues::get_raw
SecretValues_get_raw(m, key) ==
    IF key \in DOMAIN m THEN OkValue(m[key]) ELSE ErrValue("CriticalError", key)

\* SecretValues::get
SecretValues_get(m, T, k) == SecretValues_get_raw(m, as_str(T, k))

\* impl From<U> for SecretValues<T>
SecretValues_from(m) == m

\* The body of SecretValues::clone_into's for loop.
RECURSIVE SecretValues_clone_into_loop(_, _, _, _, _)
SecretValues_clone_into_loop(self, Child, i, map, looked) ==
    IF i > Len(value_list(Child)) THEN OkMap(map, looked)
    ELSE LET value == value_list(Child)[i]
             key_as_str == as_str(Child, value)
             secret_value == SecretValues_get_raw(self, key_as_str)
         IN  IF ~secret_value.ok
             THEN ErrMap("InvalidSecretsConfig", key_as_str, Append(looked, key_as_str))
             ELSE SecretValues_clone_into_loop(self, Child, i + 1,
                                               insert(map, key_as_str, secret_value.value),
                                               Append(looked, key_as_str))

\* A clone_into that inserts the key's name where the value belongs
\* (map.insert(key_as_str, key_as_str.into())).
SecretValues_clone_into_stores_name(self, Child) ==
    LET r == SecretValues_clone_into_loop(self, Child, 1, EmptyMap, <<>>)
    IN  IF r.ok THEN [r EXCEPT !.map = [n \in DOMAIN r.map |-> n]] ELSE r

\* SecretValues::<Parent>::clone_into::<Child>()
SecretValues_clone_into(self, Child) ==
    SecretValues_clone_into_loop(self, Child, 1, EmptyMap, <<>>)

---------------------------------------------------------------------------
(* The secrets backend and its payload. *)

\* A member value of a JSON object: a JSON string, or a value of another
\* JSON type (a number).
JsonMemberValues ==
    {[type |-> "string", s |-> v] : v \in Values} \cup {[type |-> "number", s |-> "7"]}

\* The members of a JSON object as written in the text, in order; the
\* same name may be written twice.
JsonMembers == SeqUpTo(Names \X JsonMemberValues, MaxEntries)

\* What GetSecretValueOutput::secret_string() can hold: no string at all
\* (None), text that is not JSON, JSON that is not an object, or a JSON
\* object with its members.
NoString == [kind |-> "none", type |-> "", members |-> <<>>]
SecretStrings ==
    {NoString, [kind |-> "text", type |-> "garbage", members |-> <<>>]}
    \cup {[kind |-> "text", type |-> t, members |-> <<>>] : t \in {"array", "string"}}
    \cup {[kind |-> "text", type |-> "object", members |-> ms] : ms \in JsonMembers}

\* What client.get_secret_value().send().await returns: Err(e), or
\* Ok(output) with the output's secret_string.
NoResponse == [tag |-> "none", secret_string |-> NoString]
SendResults ==
    {[tag |-> "err", secret_string |-> NoString]}
    \cup {[tag |-> "ok", secret_string |-> ss] : ss \in SecretStrings}

\* The HashMap serde builds from an object's members: they are inserted in
\* the order written, a later member replacing an earlier one of its name.
RECURSIVE collect_members(_, _, _)
collect_members(ms, i, map) ==
    IF i > Len(ms) THEN map
    ELSE collect_members(ms, i + 1, insert(map, ms[i][1], ms[i][2].s))

\* serde_json::from_str::<HashMap<String, String>>(text): Ok(map) for a
\* JSON object whose member values are all strings, Err otherwise.
from_str(text) ==
    IF text.type # "object" THEN ErrMap("serde_json::Error", "", <<>>)
    ELSE IF \E i \in 1..Len(text.members) : text.members[i][2].type # "string"
         THEN ErrMap("serde_json::Error", "", <<>>)
         ELSE OkMap(collect_members(text.members, 1, EmptyMap), <<>>)

---------------------------------------------------------------------------
(* load_secrets : from_secrets/config.rs *)

\* `env.get(&SecretsEnvConfig::SecretsRegion)?`
load_secrets_region(env) == EnvVariables_get(env, SecretsEnvConfig, SecretsRegion)

\* A secret-id lookup that falls back to an empty id when the entry is
\* missing, instead of returning the error.
load_secrets_id_or_default(env) ==
    IF SECRETS_ID \in DOMAIN env THEN OkValue(env[SECRETS_ID]) ELSE OkValue("")

\* `env.get(&SecretsEnvConfig::SecretsId)?`
load_secrets_id(env) == EnvVariables_get(env, SecretsEnvConfig, SecretsId)

\* A key loop that skips a field the payload lacks (if let Some(..))
\* instead of returning MissingSecretKey.
RECURSIVE load_secrets_loop_skip_missing(_, _, _, _, _)
load_secrets_loop_skip_missing(T, secrets_json, i, map, looked) ==
    IF i > Len(T) THEN OkMap(map, looked)
    ELSE load_secrets_loop_skip_missing(
             T, secrets_json, i + 1,
             IF T[i] \in DOMAIN secrets_json
             THEN insert(map, T[i], secrets_json[T[i]]) ELSE map,
             Append(looked, T[i]))

\* "Fetch required keys from JSON": the for loop over T::value_list().
RECURSIVE load_secrets_loop(_, _, _, _, _)
load_secrets_loop(T, secrets_json, i, map, looked) ==
    IF i > Len(value_list(T)) THEN OkMap(map, looked)
    ELSE LET field == value_list(T)[i]
             name == as_str(T, field)
         IN  IF name \notin DOMAIN secrets_json
             THEN ErrMap("MissingSecretKey", name, Append(looked, name))
             ELSE load_secrets_loop(T, secrets_json, i + 1,
                                    insert(map, name, secrets_json[name]),
                                    Append(looked, name))

\* A load_secrets that returns the empty container for a key-set without
\* keys before it looks at what the fetch returned.
load_secrets_after_send_empty_first(T, secrets_output) ==
    IF Len(value_list(T)) = 0 THEN OkMap(EmptyMap, <<>>)
    ELSE IF secrets_output.tag = "err"
         THEN ErrMap("FailedToFetchSecretsJson", "", <<>>)
         ELSE IF secrets_output.secret_string.kind = "none"
              THEN ErrMap("CriticalError", "", <<>>)
              ELSE LET secrets_json == from_str(secrets_output.secret_string)
                   IN  IF ~secrets_json.ok
                       THEN ErrMap("SecretsInvalidJson", "", <<>>)
                       ELSE load_secrets_loop(T, secrets_json.map, 1, EmptyMap, <<>>)

\* load_secrets from the point where send().await has returned
\* secrets_output, to its return value.
load_secrets_after_send(T, secrets_output) ==
    IF secrets_output.tag = "err"
    THEN ErrMap("FailedToFetchSecretsJson", "", <<>>)
    ELSE IF secrets_output.secret_string.kind = "none"
         THEN ErrMap("CriticalError", "", <<>>)
         ELSE LET secrets_json == from_str(secrets_output.secret_string)
              IN  IF ~secrets_json.ok
                  THEN ErrMap("SecretsInvalidJson", "", <<>>)
                  ELSE load_secrets_loop(T, secrets_json.map, 1, EmptyMap, <<>>)

---------------------------------------------------------------------------
(* The state machine: one task that loads, constructs, reads and projects *)
(* containers.  `cur` is the container it holds; a load assigns its       *)
(* result to `cur`, so `cur` is empty while a load runs and after a load   *)
(* that failed.  A successful clone_into replaces `cur` by the child (so   *)
(* projections chain); a failed one leaves the parent in `cur`.  A         *)
(* container is constructed once, when the task starts: everything after  *)
(* reads or projects it.                                                   *)

Families == {"env", "secrets"}

\* No container.
None ==
    [tag |-> "none", fam |-> "", T |-> <<>>, map |-> EmptyMap,
     root |-> "", projected |-> FALSE]

\* A container of family fam (EnvVariables<T> or SecretValues<T>) holding
\* map.  root and projected are history: which constructor made the first
\* container of this chain, and whether clone_into has been applied since.
Container(fam, T, map, root, projected) ==
    [tag |-> "some", fam |-> fam, T |-> T, map |-> map,
     root |-> root, projected |-> projected]

\* The record of an operation before it has run.
BaseRes ==
    [op |-> "none", fam |-> "", T |-> <<>>, src |-> EmptyMap, ok |-> TRUE,
     kind |-> "", name |-> "", value |-> "", looked |-> <<>>,
     env |-> EmptyMap, secrets_output |-> NoResponse, fetches |-> 0]

\* The endpoint configurations load_secrets can be handed: any
\* EnvVariables<SecretsEnvConfig>, complete or (made by From) not.
EndpointConfigs == MapsOver({SECRETS_REGION, SECRETS_ID})

get_raw(fam, m, key) ==
    IF fam = "env" THEN EnvVariables_get_raw(m, key) ELSE SecretValues_get_raw(m, key)

get(fam, m, T, k) ==
    IF fam = "env" THEN EnvVariables_get(m, T, k) ELSE SecretValues_get(m, T, k)

from(fam, m) ==
    IF fam = "env" THEN EnvVariables_from(m) ELSE SecretValues_from(m)

clone_into(fam, self, Child) ==
    IF fam = "env" THEN EnvVariables_clone_into(self, Child)
    ELSE SecretValues_clone_into(self, Child)

\* The components that are handed projections of one parent container.
Components == {"a", "b"}

\* What a component holds: nothing yet, the child container clone_into
\* returned (its key-set and map), or the error it returned (the name).
NoView == [tag |-> "none", T |-> <<>>, map |-> EmptyMap, name |-> ""]
OkView(T, map) == [tag |-> "some", T |-> T, map |-> map, name |-> ""]
ErrView(name) == [tag |-> "err", T |-> <<>>, map |-> EmptyMap, name |-> name]

\* A clone_into that takes each value out of the parent (HashMap::remove)
\* instead of cloning it: the parent's map after the call.
clone_into_self_drained(fam, self, Child) ==
    [n \in (DOMAIN self) \ NamesOf(Child) |-> self[n]]

\* The parent's map after clone_into(&self) has returned: the call borrows
\* the parent immutably and inserts clones of its values into a new map.
clone_into_self_after(fam, self, Child) == self

Init ==
    /\ cur = None
    /\ res = BaseRes
    /\ pc = "idle"
    /\ views = [c \in Components |-> NoView]

\* The task has not run any operation yet.
Fresh == pc = "idle" /\ res.op = "none"

\* let c = load_env::<T>() with the environment holding e.
LoadEnv(T, e) ==
    /\ Fresh
    /\ LET r == load_env(T, e)
       IN  /\ res' = [BaseRes EXCEPT !.op = "load_env", !.fam = "env", !.T = T,
                                     !.src = e, !.ok = r.ok, !.kind = r.kind,
                                     !.name = r.name, !.looked = r.looked]
           /\ cur' = IF r.ok THEN Container("env", T, r.map, "load_env", FALSE)
                     ELSE None
    /\ UNCHANGED <<pc, views>>

\* let c: EnvVariables<T> = EnvVariables::from(m)  (or SecretValues).
FromMap(fam, T, m) ==
    /\ Fresh
    /\ res' = [BaseRes EXCEPT !.op = "from", !.fam = fam, !.T = T, !.src = m]
    /\ cur' = Container(fam, T, from(fam, m), "from", FALSE)
    /\ UNCHANGED <<pc, views>>

\* c.get(&k) for a variant k of c's own key-set.
Get(k) ==
    /\ pc = "idle"
    /\ cur.tag = "some"
    /\ k \in 1..Len(cur.T)
    /\ LET r == get(cur.fam, cur.map, cur.T, k)
       IN  res' = [BaseRes EXCEPT !.op = "get", !.fam = cur.fam, !.T = cur.T,
                                  !.src = cur.map, !.ok = r.ok, !.kind = r.kind,
                                  !.name = as_str(cur.T, k), !.value = r.value]
    /\ UNCHANGED <<cur, pc, views>>

\* c.clone_into::<Child>(), Child a key-set of c's family.
CloneInto(Child) ==
    /\ pc = "idle"
    /\ cur.tag = "some"
    /\ LET r == clone_into(cur.fam, cur.map, Child)
       IN  /\ res' = [BaseRes EXCEPT !.op = "clone_into", !.fam = cur.fam,
                                     !.T = Child, !.src = cur.map, !.ok = r.ok,
                                     !.kind = r.kind, !.name = r.name,
                                     !.looked = r.looked]
           /\ cur' = IF r.ok THEN Container(cur.fam, Child, r.map, cur.root, TRUE)
                     ELSE cur
    /\ UNCHANGED <<pc, views>>

\* load_secrets::<T>(env) up to its first await (aws_config ... load()):
\* the region lookup.
LoadSecretsBegin(T, env) ==
    /\ Fresh
    /\ LET r == load_secrets_region(env)
           call == [BaseRes EXCEPT !.op = "load_secrets", !.fam = "secrets",
                                   !.T = T, !.env = env]
       IN  IF r.ok
           THEN /\ res' = call
                /\ pc' = "aws_config"
           ELSE /\ res' = [call EXCEPT !.ok = FALSE, !.kind = r.kind, !.name = r.name]
                /\ pc' = "idle"
    /\ cur' = None
    /\ UNCHANGED views

\* load_secrets from the return of the configuration load to its second
\* await: the secret-id lookup, then the request is sent.
LoadSecretsSend ==
    /\ pc = "aws_config"
    /\ LET r == load_secrets_id(res.env)
       IN  IF r.ok
           THEN /\ res' = [res EXCEPT !.fetches = res.fetches + 1]
                /\ pc' = "send"
           ELSE /\ res' = [res EXCEPT !.ok = FALSE, !.kind = r.kind, !.name = r.name]
                /\ pc' = "idle"
    /\ UNCHANGED <<cur, views>>

\* A load_secrets that sends the request a second time when the first
\* send fails.
LoadSecretsReturn_retry(secrets_output) ==
    /\ pc = "send"
    /\ IF secrets_output.tag = "err" /\ res.fetches < 2
       THEN /\ res' = [res EXCEPT !.fetches = res.fetches + 1]
            /\ pc' = "send"
            /\ UNCHANGED <<cur, views>>
       ELSE LET r == load_secrets_after_send(res.T, secrets_output)
            IN  /\ res' = [res EXCEPT !.secrets_output = secrets_output, !.ok = r.ok,
                                      !.kind = r.kind, !.name = r.name,
                                      !.looked = r.looked]
                /\ cur' = IF r.ok
                          THEN Container("secrets", res.T, r.map, "load_secrets", FALSE)
                          ELSE None
                /\ pc' = "idle"
                /\ UNCHANGED views

\* The backend answers with secrets_output; load_secrets runs to its return.
LoadSecretsReturn(secrets_output) ==
    /\ pc = "send"
    /\ LET r == load_secrets_after_send(res.T, secrets_output)
       IN  /\ res' = [res EXCEPT !.secrets_output = secrets_output, !.ok = r.ok,
                                 !.kind = r.kind, !.name = r.name,
                                 !.looked = r.looked]
           /\ cur' = IF r.ok
                     THEN Container("secrets", res.T, r.map, "load_secrets", FALSE)
                     ELSE None
    /\ pc' = "idle"
    /\ UNCHANGED views

\* Component c calls clone_into::<Child>() on the container in `cur`, which
\* it shares with the other components, and keeps what the call returns.
\* A component is handed its projection once.
Project(c, Child) ==
    /\ pc = "idle"
    /\ cur.tag = "some"
    /\ views[c].tag = "none"
    /\ LET r == clone_into(cur.fam, cur.map, Child)
       IN  views' = [views EXCEPT ![c] = IF r.ok THEN OkView(Child, r.map)
                                        ELSE ErrView(r.name)]
    /\ cur' = [cur EXCEPT !.map = clone_into_self_after(cur.fam, cur.map, Child)]
    /\ UNCHANGED <<res, pc>>

Next ==
    \/ \E T \in KeySets, e \in Environments : LoadEnv(T, e)
    \/ \E fam \in Families, T \in KeySets, m \in MapsOver(Names) : FromMap(fam, T, m)
    \/ \E k \in 1..MaxKeys : Get(k)
    \/ \E Child \in KeySets : CloneInto(Child)
    \/ \E T \in KeySets, env \in EndpointConfigs : LoadSecretsBegin(T, env)
    \/ LoadSecretsSend
    \/ \E secrets_output \in SendResults : LoadSecretsReturn(secrets_output)

Spec == Init /\ [][Next]_vars

\* One parent container, already constructed, that several components read
\* (get) and project (clone_into) in any order.  The parent is any
\* container From can make, which includes every container a load makes.
SharedKeySets == SeqUpTo(Names, MaxSharedKeys)

InitShared ==
    /\ cur \in {Container(fam, T, from(fam, m), "from", FALSE) :
                   fam \in Families, T \in SharedKeySets, m \in MapsOver(Names)}
    /\ res = BaseRes
    /\ pc = "idle"
    /\ views = [c \in Components |-> NoView]

NextShared ==
    \/ \E k \in 1..MaxSharedKeys : Get(k)
    \/ \E c \in Components, Child \in SharedKeySets : Project(c, Child)

SpecShared == InitShared /\ [][NextShared]_vars

---------------------------------------------------------------------------
(* Vocabulary of the properties. *)

\* Every external name of key-set T is in the set D.
Covers(D, T) == \A i \in 1..Len(T) : T[i] \in D

\* The position in T of the first key, in declaration order, whose external
\* name is not in D (used only when there is one).
FirstMissingIndex(D, T) ==
    CHOOSE i \in 1..Len(T) : T[i] \notin D /\ \A j \in 1..(i - 1) : T[j] \in D

FirstMissing(D, T) == T[FirstMissingIndex(D, T)]

\* The container in `cur` answers get(k) with a value for every key k of
\* its own key-set.
Complete(c) ==
    \A i \in 1..Len(value_list(c.T)) :
        get(c.fam, c.map, c.T, value_list(c.T)[i]).ok

\* The invalid-narrowing error of a family.
InvalidNarrowing(fam) ==
    IF fam = "env" THEN "InvalidEnvConfig" ELSE "InvalidSecretsConfig"

\* A secret string that is a flat string-to-string JSON object.
FlatStringObject(ss) ==
    /\ ss.kind = "text"
    /\ ss.type = "object"
    /\ \A i \in 1..Len(ss.members) : ss.members[i][2].type = "string"

\* The names a JSON object's members give, and the value the object gives
\* a name: that of the last member written with it.
PayloadNames(ss) == {ss.members[i][1] : i \in 1..Len(ss.members)}
PayloadValue(ss, n) ==
    LET last == CHOOSE i \in 1..Len(ss.members) :
                    /\ ss.members[i][1] = n
                    /\ \A j \in (i + 1)..Len(ss.members) : ss.members[j][1] # n
    IN  ss.members[last][2].s

\* load_secrets has returned, and `res` is what it returned.
LoadSecretsReturned == res.op = "load_secrets" /\ pc = "idle"

---------------------------------------------------------------------------
(* Properties. *)

\* C1 (completeness invariant): a container that comes from a successful
\* load_env or load_secrets, directly or through any chain of successful
\* clone_into calls, has an entry for the external name of every key of its
\* key-set: get(k) returns a value for every k of value_list().
C1_Completeness ==
    (cur.tag = "some" /\ cur.root \in {"load_env", "load_secrets"}) => Complete(cur)

\* A loaded container with at least two keys was projected, and get ran on
\* the projection.
C1_Witness ==
    /\ cur.tag = "some"
    /\ cur.root \in {"load_env", "load_secrets"}
    /\ cur.projected
    /\ Len(cur.T) >= 2
    /\ res.op = "get"

\* C2 (projection subset law): clone_into::<Child>() on any parent
\* succeeds exactly when the parent's map holds the external name of every
\* key of Child; otherwise it fails with the family's invalid-narrowing
\* error, not CriticalError, naming the first missing name in Child's
\* declaration order.
C2_SubsetLaw ==
    res.op = "clone_into" =>
        /\ res.ok <=> Covers(DOMAIN res.src, res.T)
        /\ ~res.ok =>
            /\ res.kind = InvalidNarrowing(res.fam)
            /\ res.kind # "CriticalError"
            /\ res.name = FirstMissing(DOMAIN res.src, res.T)

\* A projection of a directly constructed parent fails with two names
\* missing, the first declared not being the first alphabetically.
C2_Witness ==
    /\ res.op = "clone_into"
    /\ cur.root = "from"
    /\ res.T = <<"Y", "X">>
    /\ DOMAIN res.src = {}

\* C3 (projection value fidelity): after a successful clone_into::<Child>()
\* the child's map has exactly the external names of Child as its domain,
\* and get(k) on the child is the value the parent stores under k's name.
C3_ValueFidelity ==
    (res.op = "clone_into" /\ res.ok) =>
        /\ cur.tag = "some"
        /\ cur.T = res.T
        /\ DOMAIN cur.map = NamesOf(res.T)
        /\ \A k \in 1..Len(res.T) :
              LET r == get(cur.fam, cur.map, cur.T, k)
              IN  r.ok /\ r.value = res.src[as_str(res.T, k)]

\* A successful projection that drops an entry of the parent.
C3_Witness ==
    /\ res.op = "clone_into"
    /\ res.ok
    /\ Len(res.T) >= 1
    /\ DOMAIN res.src # NamesOf(res.T)
    /\ \E n \in DOMAIN res.src, m \in DOMAIN res.src : res.src[n] # res.src[m]

\* C4 (all-or-nothing environment loading): load_env::<T>() returns an
\* error exactly when the lookup of some key of T finds nothing; then there
\* is no container, the error is MissingEnvVariableError naming the first
\* such key in declaration order, and no later key was looked up.
C4_AllOrNothing ==
    res.op = "load_env" =>
        /\ ~res.ok <=> ~Covers(DOMAIN res.src, res.T)
        /\ ~res.ok =>
            /\ cur = None
            /\ res.kind = "MissingEnvVariableError"
            /\ res.name = FirstMissing(DOMAIN res.src, res.T)
            /\ res.looked = SubSeq(res.T, 1, FirstMissingIndex(DOMAIN res.src, res.T))

\* load_env fails at a key that has a present key before it and a missing
\* key after it.
C4_Witness ==
    /\ res.op = "load_env"
    /\ ~res.ok
    /\ DOMAIN res.src = {"X"}
    /\ res.T = <<"X", "Y", "Y">>

\* C5: when the environment has a value for every key of T, load_env::<T>()
\* returns a container whose map is exactly the environment restricted to
\* the names T declares.
C5_LoadEnvExact ==
    (res.op = "load_env" /\ Covers(DOMAIN res.src, res.T)) =>
        /\ res.ok
        /\ cur.tag = "some"
        /\ cur.map = [n \in NamesOf(res.T) |-> res.src[n]]

\* load_env succeeds where the environment holds a variable T does not
\* declare.
C5_Witness ==
    /\ res.op = "load_env"
    /\ res.ok
    /\ Len(res.T) >= 1
    /\ DOMAIN res.src # NamesOf(res.T)

\* C6 (empty key-set): load_env and clone_into for a key-set without keys
\* succeed whatever the environment or the parent holds, and the container
\* they return has an empty map.
C6_EmptyKeySet ==
    (res.op \in {"load_env", "clone_into"} /\ res.T = <<>>) =>
        /\ res.ok
        /\ cur.tag = "some"
        /\ cur.T = <<>>
        /\ cur.map = EmptyMap

\* A parent that holds every name is projected onto the empty key-set.
C6_Witness ==
    /\ res.op = "clone_into"
    /\ res.T = <<>>
    /\ DOMAIN res.src = Names

\* C7: get(key) on a container whose map lacks the key's external name
\* returns the CriticalError error, which is none of the missing-
\* configuration, missing-key and invalid-narrowing errors; it returns no
\* value in its place, and get leaves the container as it was.
C7_GetMiss ==
    [][res'.op = "get" =>
          /\ cur' = cur
          /\ res'.src = cur.map
          /\ res'.name \notin DOMAIN cur.map =>
                /\ ~res'.ok
                /\ res'.value = ""
                /\ res'.kind = "CriticalError"
                /\ res'.kind \notin {"MissingEnvVariableError", "MissingSecretKey",
                                     "InvalidEnvConfig", "InvalidSecretsConfig"}]_vars

\* get ran for a key whose name a directly constructed container lacks.
C7_Witness ==
    /\ res.op = "get"
    /\ cur.root = "from"
    /\ ~cur.projected
    /\ res.name \notin DOMAIN cur.map

\* C8 as stated: when the endpoint configuration lacks the region entry or
\* the secret-id entry, load_secrets fails with the missing-configuration
\* error and returns no container.
C8_AsStated ==
    (LoadSecretsReturned /\ ~Covers(DOMAIN res.env, SecretsEnvConfig)) =>
        /\ ~res.ok
        /\ res.kind = "MissingEnvVariableError"
        /\ cur = None

\* C8 as amended: when the endpoint configuration lacks the region entry
\* or the secret-id entry, load_secrets fails with the container's own
\* lookup error, CriticalError, for the first of the two that is missing,
\* and returns no container.
C8_EndpointMiss ==
    (LoadSecretsReturned /\ ~Covers(DOMAIN res.env, SecretsEnvConfig)) =>
        /\ ~res.ok
        /\ res.kind = "CriticalError"
        /\ res.name = FirstMissing(DOMAIN res.env, SecretsEnvConfig)
        /\ cur = None

\* load_secrets returned for an endpoint configuration that has the region
\* and lacks the secret id.
C8_Witness ==
    /\ LoadSecretsReturned
    /\ DOMAIN res.env = {SECRETS_REGION}

\* C9: when the fetch succeeds and the payload is not a flat string-to-
\* string JSON object (no string payload at all, text that is not JSON,
\* JSON that is not such an object), load_secrets fails with
\* SecretsInvalidJson and returns no container.
C9_InvalidPayload ==
    (/\ LoadSecretsReturned
     /\ res.secrets_output.tag = "ok"
     /\ ~FlatStringObject(res.secrets_output.secret_string)) =>
        /\ ~res.ok
        /\ res.kind = "SecretsInvalidJson"
        /\ cur = None

\* C10: with a payload fetched and parsed, load_secrets::<T> returns a
\* container whose get(k) is the payload's value for k's external name, for
\* every key k of T, when the payload has every name of T; otherwise it
\* fails with MissingSecretKey naming the first name of T, in declaration
\* order, that the payload lacks, and returns no container.
C10_KeyLookup ==
    (/\ LoadSecretsReturned
     /\ res.secrets_output.tag = "ok"
     /\ FlatStringObject(res.secrets_output.secret_string)) =>
        LET ss == res.secrets_output.secret_string
        IN  IF Covers(PayloadNames(ss), res.T)
            THEN /\ res.ok
                 /\ cur.tag = "some"
                 /\ cur.T = res.T
                 /\ \A k \in 1..Len(res.T) :
                       LET r == get(cur.fam, cur.map, cur.T, k)
                       IN  r.ok /\ r.value = PayloadValue(ss, as_str(res.T, k))
            ELSE /\ ~res.ok
                 /\ res.kind = "MissingSecretKey"
                 /\ res.name = FirstMissing(PayloadNames(ss), res.T)
                 /\ cur = None

\* load_secrets returned for a key-set of which the payload has the first
\* name and lacks the second.
C10_Witness ==
    /\ LoadSecretsReturned
    /\ res.secrets_output.tag = "ok"
    /\ FlatStringObject(res.secrets_output.secret_string)
    /\ PayloadNames(res.secrets_output.secret_string) = {"Y"}
    /\ res.T = <<"Y", "X">>

\* C11 as stated: load_secrets::<T> for a key-set without keys succeeds and
\* returns an empty container whatever the fetch returned, a failed fetch
\* and a payload that is not valid JSON included.
C11_AsStated ==
    (LoadSecretsReturned /\ res.T = <<>> /\ res.secrets_output.tag # "none") =>
        /\ res.ok
        /\ cur.tag = "some"
        /\ cur.map = EmptyMap

\* C11 as amended: load_secrets::<T> for a key-set without keys succeeds,
\* with an empty container, exactly when the fetch succeeded and the payload
\* is a flat string-to-string JSON object, whatever members the object has;
\* after a failed fetch or any other payload it fails and returns no
\* container.
C11_EmptySecrets ==
    (LoadSecretsReturned /\ res.T = <<>> /\ res.secrets_output.tag # "none") =>
        /\ res.ok <=> /\ res.secrets_output.tag = "ok"
                      /\ FlatStringObject(res.secrets_output.secret_string)
        /\ res.ok => cur.tag = "some" /\ cur.T = <<>> /\ cur.map = EmptyMap
        /\ ~res.ok => cur = None

\* load_secrets returned for the empty key-set and a payload with members.
C11_Witness ==
    /\ LoadSecretsReturned
    /\ res.T = <<>>
    /\ res.secrets_output.tag = "ok"
    /\ FlatStringObject(res.secrets_output.secret_string)
    /\ Len(res.secrets_output.secret_string.members) >= 1

\* C12: a call of load_secrets sends at most one request to the backend:
\* none when the region or the secret-id lookup fails, exactly one
\* otherwise; a failed send is not repeated, it ends the load with
\* FailedToFetchSecretsJson before the payload is parsed or a key looked up.
C12_SingleFetch ==
    res.op = "load_secrets" =>
        /\ res.fetches <= 1
        /\ res.fetches = 1 <=>
              \/ pc = "send"
              \/ pc = "idle" /\ Covers(DOMAIN res.env, SecretsEnvConfig)
        /\ pc = "send" => res.secrets_output = NoResponse
        /\ (pc = "idle" /\ res.secrets_output.tag = "err") =>
              /\ ~res.ok
              /\ res.kind = "FailedToFetchSecretsJson"
              /\ res.looked = <<>>
              /\ cur = None

\* load_secrets returned after its one send failed, for a key-set with keys.
C12_Witness ==
    /\ LoadSecretsReturned
    /\ res.secrets_output.tag = "err"
    /\ res.fetches = 1
    /\ Len(res.T) >= 1

\* C13: clone_into and get only read the parent.  Whatever the order in
\* which the components call them on one parent, the parent stays as it
\* was, whether a projection succeeds or fails; a projection gives its
\* component a map made of the parent's values for the child's names (or the
\* error for a name the parent lacks) and touches no other component's copy.
C13_ReadOnlyParent ==
    [][cur.tag = "some" =>
          /\ cur' = cur
          /\ \A c \in Components :
                views'[c] # views[c] =>
                    /\ \A d \in Components \ {c} : views'[d] = views[d]
                    /\ views'[c].tag = "some" =>
                          /\ Covers(DOMAIN cur.map, views'[c].T)
                          /\ views'[c].map =
                                [n \in NamesOf(views'[c].T) |-> cur.map[n]]
                    /\ views'[c].tag = "err" => views'[c].name \notin DOMAIN cur.map
          /\ \A c \in Components :
                views[c].tag = "some" =>
                    views[c].map = [n \in NamesOf(views[c].T) |-> cur.map[n]]]_vars

\* Two components projected one parent, one with success and one without,
\* and get ran on the parent afterwards.
C13_Witness ==
    /\ views["a"].tag = "some"
    /\ Len(views["a"].T) >= 1
    /\ views["b"].tag = "err"
    /\ res.op = "get"
    /\ cur.tag = "some"

=============================================================================
